---- MODULE Spec2Model ----
(***************************************************************************)
(* Interview session lifecycle of custiq-backend: the session resolver,    *)
(* the patch handlers (participant-facing and privileged), the completion  *)
(* counter, the usage-metrics reconciliation and the owner deletions.      *)
(* Every handler is split at its awaits on the store: one action per       *)
(* store round trip, so that concurrent requests interleave exactly where  *)
(* the Node event loop lets them.                                          *)
(***************************************************************************)
EXTENDS Integers, Sequences, FiniteSets, TLC

\* ------------------------------------------------------------------ bounds
NumSessions == 2        \* session ids the store can hand out
NumOwners == 2          \* users (owners); interview i belongs to owner i
NumProcs == 2           \* requests in flight at the same time
MaxReq == 3             \* requests started in one behaviour
NumTokens == 3          \* distinct token values (stored or guessed)
MaxTime == 1            \* largest timestamp (clock, endedAt sent by a client)
MaxVersion == 1         \* company and research configurations are versions 0..MaxVersion

SessionIds == 1..NumSessions
Owners == 1..NumOwners
Interviews == 1..NumOwners
Procs == 1..NumProcs
Tokens == 1..NumTokens
Versions == 0..MaxVersion

NoId == 0               \* request without a usable :id (blank after trim)
NoToken == 0            \* request without a session token
NoUser == 0             \* request without an authenticated owner

VARIABLES
  sessions,             \* InterviewSession table: id -> row
  interviews,           \* Interview table: id -> [exists, active]
  counter,              \* User.completedSessionsCount: owner -> Nat
  segments,             \* TranscriptSegment table in insertion order
  reports,              \* InterviewReport table: its rows in insertion order
  nextId,               \* next session id the store generates
  config,               \* configuration: company info per user, research per
                        \* interview, the deployment's INTERNAL_CRON_SECRET
  clock,                \* wall clock (new Date(), CURRENT_TIMESTAMP)
  pc,                   \* per request slot: position in its handler
  req,                  \* per request slot: the request being handled
  loc,                  \* per request slot: the handler's local variables
  reply,                \* the reply sent last, by any handler
  nreq,                 \* requests started so far
  hist                  \* history: per session, what the patches did to it

vars == <<sessions, interviews, counter, segments, reports, nextId, config, clock,
          pc, req, loc, reply, nreq, hist>>

store == <<sessions, interviews, counter, segments, reports, nextId, config>>

\* ------------------------------------------------------------------ rows
NoSession ==
  [exists |-> FALSE, sessionToken |-> NoToken, interviewId |-> 0,
   createdBy |-> NoUser, status |-> "none", completed |-> FALSE,
   endedAt |-> -1, lastActivityAt |-> 0, compiledPromptHash |-> "none",
   globalContextSnapshot |-> 0, researchContextSnapshot |-> 0]

\* Interview.userId: the schema's owner of an interview (fixed at creation).
InterviewUserId(i) == i

\* A request body: `has` is the set of fields present, `wrongType` those of
\* them whose value is not of the type the handler tests for (a `segments`
\* that is not an array, a `summary` that is not a string).
NoBody ==
  [has |-> {}, wrongType |-> {}, status |-> "none", endedAt |-> -1, completed |-> FALSE,
   lastActivityAt |-> 0, compiledPromptHash |-> "none",
   segments |-> <<>>, summary |-> "none", interviewCompleted |-> TRUE,
   keyQuotesJson |-> "none", painsJson |-> "none", opportunitiesJson |-> "none",
   reviewJson |-> "none"]

\* The `minutes` query parameter of the sweep: absent, a text that is not a
\* number, or the text of the number n.
NoMinutes == [given |-> FALSE, numeric |-> FALSE, n |-> 0]
NotANumber == [given |-> TRUE, numeric |-> FALSE, n |-> 0]
MinutesText(n) == [given |-> TRUE, numeric |-> TRUE, n |-> n]

NoReq == [kind |-> "none", id |-> NoId, token |-> NoToken, user |-> NoUser,
          secret |-> "none", slug |-> 0, participantName |-> "", mode |-> "none",
          minutes |-> NoMinutes, body |-> NoBody]

NoLoc == [session |-> NoSession, sid |-> NoId, now |-> 0, count |-> 0, db |-> 0,
          globalContextSnapshot |-> 0, researchContextSnapshot |-> 0,
          cutoff |-> 0, ids |-> {}]

\* A reply: the status code, the request it answers (route, :id and token) and
\* what the handler sent or acted on (session, its token, segments, a count).
NoReply == [code |-> 0, kind |-> "none", id |-> NoId, by |-> NoToken, user |-> NoUser,
            slug |-> 0, participantName |-> "", mode |-> "none",
            sid |-> NoId, token |-> NoToken, segments |-> <<>>, count |-> 0,
            stale |-> <<>>, secret |-> "none"]

\* What the patches did to a session so far: counter increments made for it
\* (incs), session updates written by a patch that had decided to increment
\* (applied), patches written that carried completed=true (tries), and whether
\* a patch that carried completed=false was written (unset).
NoHist == [incs |-> 0, applied |-> 0, tries |-> 0, unset |-> FALSE]

Reply(code) == [NoReply EXCEPT !.code = code]

\* ------------------------------------------------------------------ store queries
\* prisma.interviewSession.findUnique({ where: { sessionToken } })
FindByToken(tok) ==
  IF \E s \in SessionIds : sessions[s].exists /\ sessions[s].sessionToken = tok
    THEN CHOOSE s \in SessionIds : sessions[s].exists /\ sessions[s].sessionToken = tok
    ELSE NoId

\* prisma.interviewSession.findUnique({ where: { id } })
FindById(id) ==
  IF id \in SessionIds /\ sessions[id].exists THEN id ELSE NoId

\* prisma.interviewSession.count({ where: { interview: { userId }, completed: true } })
DbCompletedCount(o) ==
  Cardinality({s \in SessionIds :
                 /\ sessions[s].exists
                 /\ InterviewUserId(sessions[s].interviewId) = o
                 /\ sessions[s].completed})

\* ------------------------------------------------------------------ initial states
\* A session row as prisma.interviewSession.create writes it: token tok,
\* interview i, column defaults at time t, and the two snapshots g and r.
NewSession(tok, i, t, g, r) ==
  [exists |-> TRUE, sessionToken |-> tok, interviewId |-> i,
   createdBy |-> InterviewUserId(i), status |-> "active", completed |-> FALSE,
   endedAt |-> -1, lastActivityAt |-> t, compiledPromptHash |-> "none",
   globalContextSnapshot |-> g, researchContextSnapshot |-> r]

\* Sessions that existed, some of them completed, when the counter column was
\* added with DEFAULT 0 (migration 20260205): the counter starts at 0 for every
\* owner, whatever the number of sessions already completed.
LegacySession(s, i, done) ==
  [NewSession(s, i, 0, 0, 0) EXCEPT !.completed = done,
                              !.status = IF done THEN "completed" ELSE "active"]

\* The secret a deployment configures (app.config.INTERNAL_CRON_SECRET), and
\* the value of the setting when none is configured (undefined).
InternalSecret == "cron-secret"
NoSecret == "none"

\* The configuration of a deployment whose internal secret is `secret`.
InitConfig(secret) ==
  [company |-> [o \in Owners |-> 0], research |-> [i \in Interviews |-> 0],
   secret |-> secret]

\* Everything but the configuration.
InitRest ==
  /\ \E k \in 0..NumSessions :
       \E f \in [1..k -> Interviews \X BOOLEAN] :
         /\ sessions = [s \in SessionIds |->
                          IF s <= k THEN LegacySession(s, f[s][1], f[s][2])
                                    ELSE NoSession]
         /\ nextId = k + 1
  /\ interviews = [i \in Interviews |-> [exists |-> TRUE, active |-> TRUE]]
  /\ counter = [o \in Owners |-> 0]
  /\ segments = <<>>
  /\ reports = <<>>
  /\ clock = 0
  /\ pc = [p \in Procs |-> "idle"]
  /\ req = [p \in Procs |-> NoReq]
  /\ loc = [p \in Procs |-> NoLoc]
  /\ reply = NoReply
  /\ nreq = 0
  /\ hist = [s \in SessionIds |-> NoHist]

\* A deployment with the internal secret configured.
Init == InitRest /\ config = InitConfig(InternalSecret)

\* ------------------------------------------------------------------ request plumbing
\* A request slot is free and the behaviour's request budget is not used up.
CanStart(p) == pc[p] = "idle" /\ nreq < MaxReq

\* Reply rep, as the answer to request r.
To(r, rep) ==
  [rep EXCEPT !.kind = r.kind, !.id = r.id, !.by = r.token, !.user = r.user,
              !.slug = r.slug, !.participantName = r.participantName, !.mode = r.mode,
              !.secret = r.secret]

\* The handler of slot p takes request r and goes on at `at` with locals l.
Start(p, r, at, l) ==
  /\ pc' = [pc EXCEPT ![p] = at]
  /\ req' = [req EXCEPT ![p] = r]
  /\ loc' = [loc EXCEPT ![p] = l]
  /\ UNCHANGED reply
  /\ nreq' = nreq + 1

\* The handler of slot p takes request r and answers it in the same step.
Answer(p, r, rep) ==
  /\ pc' = [pc EXCEPT ![p] = "idle"]
  /\ req' = [req EXCEPT ![p] = NoReq]
  /\ loc' = [loc EXCEPT ![p] = NoLoc]
  /\ reply' = To(r, rep)
  /\ nreq' = nreq + 1

\* The handler of slot p rejects request r before any store write.
Reject(p, r, code) == Answer(p, r, Reply(code))

\* The handler of slot p sends its reply and ends.
Finish(p, rep) ==
  /\ pc' = [pc EXCEPT ![p] = "idle"]
  /\ req' = [req EXCEPT ![p] = NoReq]
  /\ loc' = [loc EXCEPT ![p] = NoLoc]
  /\ reply' = To(req[p], rep)
  /\ UNCHANGED nreq

\* ------------------------------------------------------------------ session resolver
\* A resolver without the test on the row found by id (C9 depends on the test).
TokenMismatch_Off(tok, row) == FALSE

\* resolveSession, the test on the row found by id: a supplied token must be
\* the row's stored token.
TokenMismatch(tok, row) == tok # NoToken /\ row.sessionToken # tok

\* A lookup by token that also compares the supplied id with the id of the row
\* found and rejects a difference with 403 (the resolver C8 was stated for).
ByTokenOutcome_Strict(tok, id) ==
  LET s == FindByToken(tok) IN
    IF s # NoId
      THEN IF id # NoId /\ id # s
             THEN [next |-> "reject", code |-> 403, sid |-> NoId]
             ELSE [next |-> "resolved", code |-> 200, sid |-> s]
    ELSE IF id = NoId THEN [next |-> "reject", code |-> 404, sid |-> NoId]
    ELSE [next |-> "byId", code |-> 0, sid |-> NoId]

\* resolveSession, the lookup by token: what the resolver does with the row
\* found by token (or with none). The id is not looked at when a row is found.
ByTokenOutcome(tok, id) ==
  LET s == FindByToken(tok) IN
    IF s # NoId THEN [next |-> "resolved", code |-> 200, sid |-> s]
    ELSE IF id = NoId THEN [next |-> "reject", code |-> 404, sid |-> NoId]
    ELSE [next |-> "byId", code |-> 0, sid |-> NoId]

\* resolveSession, the lookup by id and the mismatch test after it.
ByIdOutcome(tok, id) ==
  LET s == FindById(id) IN
    IF s = NoId THEN [next |-> "reject", code |-> 404, sid |-> NoId]
    ELSE IF TokenMismatch(tok, sessions[s])
      THEN [next |-> "reject", code |-> 403, sid |-> NoId]
      ELSE [next |-> "resolved", code |-> 200, sid |-> s]

\* The resolver's first store read: by token when a token was sent, else by id.
FirstLookup(tok, id) ==
  IF tok = NoToken /\ id = NoId
    THEN [next |-> "reject", code |-> 400, sid |-> NoId]
    ELSE IF tok # NoToken THEN ByTokenOutcome(tok, id) ELSE ByIdOutcome(tok, id)

\* The handler's locals once the resolver returned row s: the row as read, and
\* the time the handler reads right after (new Date()).
Resolved(s) == [NoLoc EXCEPT !.sid = s, !.session = sessions[s], !.now = clock]

\* A request r of a route that resolves its session arrives; the handler runs
\* up to the resolver's first store read.
ResolveBegin(p, r) ==
  /\ CanStart(p)
  /\ LET o == FirstLookup(r.token, r.id) IN
       CASE o.next = "reject" -> Reject(p, r, o.code)
         [] o.next = "byId" -> Start(p, r, "byId", NoLoc)
         [] o.next = "resolved" -> Start(p, r, "resolved", Resolved(o.sid))
  /\ UNCHANGED <<store, clock, hist>>

\* The resolver's second store read: no row had the token, an id was sent.
ResolveById(p) ==
  /\ pc[p] = "byId"
  /\ LET o == ByIdOutcome(req[p].token, req[p].id) IN
       IF o.next = "reject"
         THEN Finish(p, Reply(o.code))
         ELSE /\ pc' = [pc EXCEPT ![p] = "resolved"]
              /\ loc' = [loc EXCEPT ![p] = Resolved(o.sid)]
              /\ UNCHANGED <<req, reply, nreq>>
  /\ UNCHANGED <<store, clock, hist>>

\* The requests of the participant-facing routes.
PublicReq(kind, id, tok, body) ==
  [NoReq EXCEPT !.kind = kind, !.id = id, !.token = tok, !.body = body]

\* ------------------------------------------------------------------ patch and counter
PublicPatchFields == {"status", "endedAt", "completed", "lastActivityAt", "compiledPromptHash"}
\* A privileged patch that takes no `completed` (C28 depends on both routes
\* taking it).
InternalPatchFields_NoCompleted == {"status", "endedAt"}

InternalPatchFields == {"status", "endedAt", "completed"}

\* An update that writes the status whether or not the request has one (C24
\* depends on the `if (body.x !== undefined)` tests).
ApplyUpdates_AlwaysStatus(row, body, fields) ==
  LET has == body.has \cap fields IN
    [row EXCEPT
       !.status = body.status,
       !.endedAt = IF "endedAt" \in has THEN body.endedAt ELSE @,
       !.completed = IF "completed" \in has THEN body.completed ELSE @,
       !.lastActivityAt = IF "lastActivityAt" \in has THEN body.lastActivityAt ELSE @,
       !.compiledPromptHash =
           IF "compiledPromptHash" \in has THEN body.compiledPromptHash ELSE @]

\* The `updates` object a patch handler builds (one `if (body.x !== undefined)`
\* per field the route accepts), applied to a stored row by interviewSession.update.
ApplyUpdates(row, body, fields) ==
  LET has == body.has \cap fields IN
    [row EXCEPT
       !.status = IF "status" \in has THEN body.status ELSE @,
       !.endedAt = IF "endedAt" \in has THEN body.endedAt ELSE @,
       !.completed = IF "completed" \in has THEN body.completed ELSE @,
       !.lastActivityAt = IF "lastActivityAt" \in has THEN body.lastActivityAt ELSE @,
       !.compiledPromptHash =
           IF "compiledPromptHash" \in has THEN body.compiledPromptHash ELSE @]

\* A decision to increment that does not look at the row read (C2 depends on
\* the row's completed flag being part of the decision).
ShouldIncrementCompleted_Blind(body, session) ==
  "completed" \in body.has /\ body.completed

\* shouldIncrementCompleted: the request carries completed=true and the row
\* the handler read earlier was not completed.
ShouldIncrementCompleted(body, session) ==
  "completed" \in body.has /\ body.completed /\ ~session.completed

\* prisma.user.update({ data: { completedSessionsCount: { increment: 1 } } })
IncrementCount(cnt, o) == [cnt EXCEPT ![o] = @ + 1]

\* A patch write whose two updates are not one transaction: the increment is
\* written first and stays when the session update then fails (C4 depends on
\* the rollback).
PatchWrite_NoRollback(p, sid, snap, fields) ==
  LET body == req[p].body
      inc == ShouldIncrementCompleted(body, snap)
      newCounter == IF inc THEN IncrementCount(counter, snap.createdBy) ELSE counter
      o == snap.createdBy
  IN /\ counter' = newCounter
     /\ IF ~sessions[sid].exists
          THEN /\ Finish(p, Reply(500))
               /\ hist' = [hist EXCEPT ![sid].incs = @ + (newCounter[o] - counter[o])]
               /\ UNCHANGED sessions
          ELSE /\ sessions' = [sessions EXCEPT ![sid] = ApplyUpdates(@, body, fields)]
               /\ hist' = [hist EXCEPT
                    ![sid].incs = @ + (newCounter[o] - counter[o]),
                    ![sid].applied = IF inc THEN @ + 1 ELSE @,
                    ![sid].tries = IF "completed" \in body.has /\ body.completed
                                     THEN @ + 1 ELSE @,
                    ![sid].unset = @ \/ ("completed" \in body.has /\ ~body.completed)]
               /\ Finish(p, [Reply(200) EXCEPT !.sid = sid])

\* The write of a patch handler: the session update alone, or the transaction
\* of the session update and the counter increment. `snap` is the row as the
\* handler read it. An update of a row that is gone throws (P2025): the
\* transaction rolls back and nothing is written.
PatchWrite(p, sid, snap, fields) ==
  LET body == req[p].body
      inc == ShouldIncrementCompleted(body, snap)
      newCounter == IF inc THEN IncrementCount(counter, snap.createdBy) ELSE counter
      o == snap.createdBy
  IN IF ~sessions[sid].exists
       THEN /\ Finish(p, Reply(500))
            /\ UNCHANGED <<sessions, counter, hist>>
       ELSE /\ sessions' = [sessions EXCEPT ![sid] = ApplyUpdates(@, body, fields)]
            /\ counter' = newCounter
            /\ hist' = [hist EXCEPT
                 ![sid].incs = @ + (newCounter[o] - counter[o]),
                 ![sid].applied = IF inc THEN @ + 1 ELSE @,
                 ![sid].tries = IF "completed" \in body.has /\ body.completed
                                  THEN @ + 1 ELSE @,
                 ![sid].unset = @ \/ ("completed" \in body.has /\ ~body.completed)]
            /\ Finish(p, [Reply(200) EXCEPT !.sid = sid])

\* PATCH /public/sessions/:id, from the resolver's return to the reply.
PatchCommit(p) ==
  /\ pc[p] = "resolved" /\ req[p].kind = "patch"
  /\ PatchWrite(p, loc[p].sid, loc[p].session, PublicPatchFields)
  /\ UNCHANGED <<interviews, segments, reports, nextId, clock, config>>

\* An Authorization header: `bearer` says whether the value starts with
\* "Bearer " (in any case), `rest` is what follows the prefix, or the whole
\* value when there is no prefix.
NoAuthorization == [present |-> FALSE, bearer |-> FALSE, rest |-> "none"]
Authorization(bearer, rest) == [present |-> TRUE, bearer |-> bearer, rest |-> rest]

\* request.headers.authorization?.replace(/^Bearer\s+/i, ""): undefined ("none")
\* without the header, else the value without its prefix.
StripBearer(auth) == IF auth.present THEN auth.rest ELSE "none"

\* The `header` checkInternalSecret compares: x-internal-secret if the request
\* has it (x # "none"), else the Authorization header without "Bearer ".
InternalHeader(x, auth) == IF x # "none" THEN x ELSE StripBearer(auth)

\* A check that compares the header with the setting without testing that a
\* secret is configured (C27 depends on the test).
SecretCode_NoConfigTest(header) ==
  IF header # config.secret THEN 401 ELSE 200

\* checkInternalSecret, the status it decides: 501 when no secret is configured
\* (undefined or empty), 401 when the header is not the secret, else it lets
\* the handler go on (200).
SecretCode(header) ==
  IF config.secret \in {NoSecret, ""} THEN 501
  ELSE IF header # config.secret THEN 401
  ELSE 200

\* checkInternalSecret's return value.
CheckInternalSecret(header) == SecretCode(header) = 200

\* PATCH /internal/sessions/:id up to its findUnique.
InternalPatchBegin(p, id, header, body) ==
  LET r == [NoReq EXCEPT !.kind = "ipatch", !.id = id, !.secret = header, !.body = body]
      s == FindById(id)
  IN /\ CanStart(p)
     /\ IF ~CheckInternalSecret(header) THEN Reject(p, r, SecretCode(header))
        ELSE IF id = NoId THEN Reject(p, r, 400)
        ELSE IF s = NoId THEN Reject(p, r, 404)
        ELSE Start(p, r, "iwrite", [NoLoc EXCEPT !.sid = s, !.session = sessions[s]])
     /\ UNCHANGED <<store, clock, hist>>

\* PATCH /internal/sessions/:id, its write and reply.
InternalPatchCommit(p) ==
  /\ pc[p] = "iwrite"
  /\ PatchWrite(p, loc[p].sid, loc[p].session, InternalPatchFields)
  /\ UNCHANGED <<interviews, segments, reports, nextId, clock, config>>

\* ------------------------------------------------------------------ usage metrics
\* A catch-up that writes whenever the two numbers differ, also downwards (C7
\* depends on the comparison being "greater than").
NeedsCatchUp_Differs(stored, db) == db # stored

\* GET /interviews/metrics, `if (dbCompletedCount > completedSessionsCount)`:
\* the count of completed sessions as read exceeds the counter as read.
NeedsCatchUp(stored, db) == db > stored

\* GET /interviews/metrics up to its read of the user row.
MetricsBegin(p, u) ==
  LET r == [NoReq EXCEPT !.kind = "metrics", !.user = u] IN
    /\ CanStart(p)
    /\ IF u = NoUser THEN Reject(p, r, 401)
       ELSE Start(p, r, "mcount", [NoLoc EXCEPT !.count = counter[u]])
    /\ UNCHANGED <<store, clock, hist>>

\* GET /interviews/metrics, the count queries (Promise.all).
MetricsCount(p) ==
  /\ pc[p] = "mcount"
  /\ pc' = [pc EXCEPT ![p] = "mwrite"]
  /\ loc' = [loc EXCEPT ![p].db = DbCompletedCount(req[p].user)]
  /\ UNCHANGED <<store, clock, hist, req, reply, nreq>>

\* GET /interviews/metrics, the catch-up write (when the count read is larger
\* than the counter read) and the reply.
MetricsWrite(p) ==
  LET u == req[p].user
      raise == NeedsCatchUp(loc[p].count, loc[p].db)
  IN /\ pc[p] = "mwrite"
     /\ counter' = IF raise THEN [counter EXCEPT ![u] = loc[p].db] ELSE counter
     /\ Finish(p, [Reply(200) EXCEPT !.count = IF raise THEN loc[p].db ELSE loc[p].count])
     /\ UNCHANGED <<sessions, interviews, segments, reports, nextId, clock, hist, config>>

\* ------------------------------------------------------------------ owner deletions
\* ON DELETE CASCADE from InterviewSession to TranscriptSegment.
SegmentsWithout(gone) ==
  SelectSeq(segments, LAMBDA g : g.interviewSessionId \notin gone)

\* ON DELETE CASCADE from InterviewSession to InterviewReport.
ReportsWithout(gone) ==
  SelectSeq(reports, LAMBDA g : g.interviewSessionId \notin gone)

\* A delete of the session row alone, in a schema without ON DELETE CASCADE
\* on the segments and the reports (C26 depends on the cascades).
SessionDelete_NoCascade(p, u, id) ==
  LET r == [NoReq EXCEPT !.kind = "delete", !.user = u, !.id = id]
      hit == /\ FindById(id) # NoId
             /\ InterviewUserId(sessions[id].interviewId) = u
  IN /\ CanStart(p)
     /\ IF u = NoUser THEN Reject(p, r, 401) /\ UNCHANGED store
        ELSE IF id = NoId THEN Reject(p, r, 400) /\ UNCHANGED store
        ELSE IF ~hit THEN Reject(p, r, 404) /\ UNCHANGED store
        ELSE /\ sessions' = [sessions EXCEPT ![id] = NoSession]
             /\ Answer(p, r, [Reply(200) EXCEPT !.sid = id])
             /\ UNCHANGED <<interviews, counter, segments, reports, nextId, config>>
     /\ UNCHANGED <<clock, hist>>

\* DELETE /interview-sessions/:id: deleteMany scoped to the owner's interviews.
SessionDelete(p, u, id) ==
  LET r == [NoReq EXCEPT !.kind = "delete", !.user = u, !.id = id]
      hit == /\ FindById(id) # NoId
             /\ InterviewUserId(sessions[id].interviewId) = u
  IN /\ CanStart(p)
     /\ IF u = NoUser THEN Reject(p, r, 401) /\ UNCHANGED store
        ELSE IF id = NoId THEN Reject(p, r, 400) /\ UNCHANGED store
        ELSE IF ~hit THEN Reject(p, r, 404) /\ UNCHANGED store
        ELSE /\ sessions' = [sessions EXCEPT ![id] = NoSession]
             /\ segments' = SegmentsWithout({id})
             /\ reports' = ReportsWithout({id})
             /\ Answer(p, r, [Reply(200) EXCEPT !.sid = id])
             /\ UNCHANGED <<interviews, counter, nextId, config>>
     /\ UNCHANGED <<clock, hist>>

\* DELETE /interviews/:id: deleteMany scoped to the owner; the sessions of the
\* interview go with it (ON DELETE CASCADE), and their segments and reports.
InterviewDelete(p, u, i) ==
  LET r == [NoReq EXCEPT !.kind = "idelete", !.user = u, !.id = i]
      hit == i \in Interviews /\ interviews[i].exists /\ InterviewUserId(i) = u
      gone == {s \in SessionIds : sessions[s].exists /\ sessions[s].interviewId = i}
  IN /\ CanStart(p)
     /\ IF u = NoUser THEN Reject(p, r, 401) /\ UNCHANGED store
        ELSE IF ~hit THEN Reject(p, r, 404) /\ UNCHANGED store
        ELSE /\ interviews' = [interviews EXCEPT ![i].exists = FALSE]
             /\ sessions' = [s \in SessionIds |-> IF s \in gone THEN NoSession ELSE sessions[s]]
             /\ segments' = SegmentsWithout(gone)
             /\ reports' = ReportsWithout(gone)
             /\ Answer(p, r, Reply(200))
             /\ UNCHANGED <<counter, nextId, config>>
     /\ UNCHANGED <<clock, hist>>

\* ------------------------------------------------------------------ session creation
modes == {"text", "voice"}

\* buildGlobalSnapshot(user): the company information of the interview's owner
\* as read by the lookup.
BuildGlobalSnapshot(o) == config.company[o]

\* buildResearchSnapshot(research): the research of the interview as read by
\* the lookup (interview i has research i).
BuildResearchSnapshot(i) == config.research[i]

\* Session ids still to hand out, counting the creations under way.
IdsLeft == NumSessions + 1 - nextId - Cardinality({q \in Procs : pc[q] = "insert"})

\* A lookup of the interview by slug alone (C18 depends on `active: true`).
FindActiveInterview_AnyState(slug) ==
  slug \in Interviews /\ interviews[slug].exists

\* interview.findFirst({ where: { interviewSlug: slug, active: true } }) finds a row.
FindActiveInterview(slug) ==
  slug \in Interviews /\ interviews[slug].exists /\ interviews[slug].active

\* POST /public/sessions up to its lookup of the published interview, which
\* reads the research and the owner's company information with it. Slug i is
\* the slug of interview i; slug 0 is a blank slug, any other matches nothing.
CreateBegin(p, slug, name, mode) ==
  LET r == [NoReq EXCEPT !.kind = "create", !.slug = slug,
                         !.participantName = name, !.mode = mode]
      found == FindActiveInterview(slug)
  IN /\ CanStart(p)
     /\ IdsLeft > 0
     /\ IF slug = 0 \/ name = "" \/ mode \notin modes THEN Reject(p, r, 400)
        ELSE IF ~found THEN Reject(p, r, 404)
        ELSE Start(p, r, "insert",
                   [NoLoc EXCEPT
                      !.globalContextSnapshot = BuildGlobalSnapshot(InterviewUserId(slug)),
                      !.researchContextSnapshot = BuildResearchSnapshot(slug)])
     /\ UNCHANGED <<store, clock, hist>>

\* An insert into a table without the unique index on sessionToken (C17
\* depends on the index).
CreateInsert_NoUniqueIndex(p) ==
  /\ pc[p] = "insert"
  /\ \E tok \in Tokens :
       IF ~interviews[req[p].slug].exists
         THEN /\ Finish(p, Reply(500))
              /\ UNCHANGED <<sessions, nextId>>
         ELSE /\ sessions' = [sessions EXCEPT ![nextId] =
                   NewSession(tok, req[p].slug, clock, loc[p].globalContextSnapshot,
                              loc[p].researchContextSnapshot)]
              /\ nextId' = nextId + 1
              /\ Finish(p, [Reply(200) EXCEPT !.sid = nextId, !.token = tok])
  /\ UNCHANGED <<interviews, counter, segments, reports, clock, hist, config>>

\* POST /public/sessions, the insert with a freshly drawn token. The insert
\* fails on a token that a stored row has (unique index) and on an interview
\* deleted since the lookup (foreign key).
CreateInsert(p) ==
  /\ pc[p] = "insert"
  /\ \E tok \in Tokens :
       IF FindByToken(tok) # NoId \/ ~interviews[req[p].slug].exists
         THEN /\ Finish(p, Reply(500))
              /\ UNCHANGED <<sessions, nextId>>
         ELSE /\ sessions' = [sessions EXCEPT ![nextId] =
                   NewSession(tok, req[p].slug, clock, loc[p].globalContextSnapshot,
                              loc[p].researchContextSnapshot)]
              /\ nextId' = nextId + 1
              /\ Finish(p, [Reply(200) EXCEPT !.sid = nextId, !.token = tok])
  /\ UNCHANGED <<interviews, counter, segments, reports, clock, hist, config>>

\* ------------------------------------------------------------------ owner configuration
\* PATCH /interviews/:id/toggle-active: updateMany scoped to the owner.
ToggleActive(p, u, i, active) ==
  LET r == [NoReq EXCEPT !.kind = "toggle", !.user = u, !.id = i]
      hit == i \in Interviews /\ interviews[i].exists /\ InterviewUserId(i) = u
  IN /\ CanStart(p)
     /\ IF u = NoUser THEN Reject(p, r, 401) /\ UNCHANGED interviews
        ELSE IF ~hit THEN Reject(p, r, 404) /\ UNCHANGED interviews
        ELSE /\ interviews' = [interviews EXCEPT ![i].active = active]
             /\ Answer(p, r, Reply(200))
     /\ UNCHANGED <<sessions, counter, segments, reports, nextId, config, clock, hist>>

\* A company-info update that is also written into the snapshots of the
\* owner's sessions (C16 depends on sessions holding copies).
CompanyInfoPut_Live(p, u, v) ==
  LET r == [NoReq EXCEPT !.kind = "company", !.user = u] IN
    /\ CanStart(p)
    /\ IF u = NoUser THEN Reject(p, r, 401) /\ UNCHANGED <<config, sessions>>
       ELSE /\ config' = [config EXCEPT !.company[u] = v]
            /\ sessions' = [s \in SessionIds |->
                  IF sessions[s].exists /\ sessions[s].createdBy = u
                    THEN [sessions[s] EXCEPT !.globalContextSnapshot = v]
                    ELSE sessions[s]]
            /\ Answer(p, r, Reply(200))
    /\ UNCHANGED <<interviews, counter, segments, reports, nextId, clock, hist>>

\* PUT /company-info: the owner's company information becomes version v.
CompanyInfoPut(p, u, v) ==
  LET r == [NoReq EXCEPT !.kind = "company", !.user = u] IN
    /\ CanStart(p)
    /\ IF u = NoUser THEN Reject(p, r, 401) /\ UNCHANGED <<config, sessions>>
       ELSE /\ config' = [config EXCEPT !.company[u] = v]
            /\ Answer(p, r, Reply(200))
            /\ UNCHANGED sessions
    /\ UNCHANGED <<interviews, counter, segments, reports, nextId, clock, hist>>

\* PUT /researches/:id: updateMany scoped to the owner; the research of
\* interview i becomes version v.
ResearchUpdate(p, u, i, v) ==
  LET r == [NoReq EXCEPT !.kind = "research", !.user = u, !.id = i]
      hit == i \in Interviews /\ InterviewUserId(i) = u
  IN /\ CanStart(p)
     /\ IF u = NoUser THEN Reject(p, r, 401) /\ UNCHANGED config
        ELSE IF ~hit THEN Reject(p, r, 404) /\ UNCHANGED config
        ELSE /\ config' = [config EXCEPT !.research[i] = v]
             /\ Answer(p, r, Reply(200))
     /\ UNCHANGED <<sessions, interviews, counter, segments, reports, nextId, clock, hist>>

\* ------------------------------------------------------------------ read, append, report
\* The segment rows of a session (where: { interviewSessionId }), in the order
\* they were inserted.
SegmentsOf(sid) == SelectSeq(segments, LAMBDA g : g.interviewSessionId = sid)

\* orderBy: { createdAt: "asc" }: non-decreasing createdAt.
SortedByCreatedAt(q) ==
  \A i, j \in 1..Len(q) : i < j => q[i].createdAt <= q[j].createdAt

\* findMany({ where: { interviewSessionId }, orderBy: { createdAt: "asc" } }):
\* the results the store may return. createdAt is the only sort key, so rows
\* with equal createdAt come in an order the store does not fix.
FindManyAsc(sid) ==
  LET rows == SegmentsOf(sid)
      n == Len(rows)
      perms == {f \in [1..n -> 1..n] : \A i, j \in 1..n : i # j => f[i] # f[j]}
  IN {q \in {[k \in 1..n |-> rows[f[k]]] : f \in perms} : SortedByCreatedAt(q)}

\* ------------------------------------------------------------------ staleness sweep
MinMinutes == 5
MaxMinutes == 60
DefaultMinutes == 30

\* Math.min / Math.max
Min2(a, b) == IF a < b THEN a ELSE b
Max2(a, b) == IF a > b THEN a ELSE b

\* Number(request.query?.minutes) || 30: Number gives NaN for an absent
\* parameter and for a text that is not a number; NaN and 0 are falsy.
MinutesOrDefault(q) ==
  IF ~q.given \/ ~q.numeric \/ q.n = 0 THEN DefaultMinutes ELSE q.n

\* A threshold without the lower limit (C23 depends on Math.max(5, ...)).
EffectiveMinutes_NoFloor(q) == Min2(MaxMinutes, MinutesOrDefault(q))

\* const minutes = Math.min(60, Math.max(5, Number(request.query?.minutes) || 30))
EffectiveMinutes(q) == Min2(MaxMinutes, Max2(MinMinutes, MinutesOrDefault(q)))

\* new Date(Date.now() - minutes * 60 * 1000), the clock counting minutes.
Cutoff(now, q) == now - EffectiveMinutes(q)

\* A filter on lastActivityAt alone (C21 depends on status: "active").
StaleSessions_AnyStatus(cutoff) ==
  {s \in SessionIds : sessions[s].exists /\ sessions[s].lastActivityAt < cutoff}

\* findMany({ where: { status: "active", lastActivityAt: { lt: cutoff } } })
StaleSessions(cutoff) ==
  {s \in SessionIds : /\ sessions[s].exists
                      /\ sessions[s].status = "active"
                      /\ sessions[s].lastActivityAt < cutoff}

\* GET /internal/sessions/stale up to the rows of its findMany: the secret, the
\* threshold, the cutoff and the sessions selected. It writes nothing.
StaleSweep(p, header, q) ==
  LET r == [NoReq EXCEPT !.kind = "stale", !.secret = header, !.minutes = q]
      cutoff == Cutoff(clock, q)
  IN /\ CanStart(p)
     /\ IF ~CheckInternalSecret(header) THEN Reject(p, r, SecretCode(header))
        ELSE Start(p, r, "sweep", [NoLoc EXCEPT !.now = clock, !.cutoff = cutoff,
                                                !.ids = StaleSessions(cutoff)])
     /\ UNCHANGED <<store, clock, hist>>

\* The transcripts the sweep may attach to the sessions in `ids`: for each of
\* them one result of the ordered read of its segments.
TranscriptsOf(ids) ==
  {f \in [ids -> UNION {FindManyAsc(s) : s \in ids}] :
     \A s \in ids : f[s] \in FindManyAsc(s)}

\* A sweep that also ends the sessions it returns (C22 depends on the sweep
\* writing nothing).
SweepReply_Finalizes(p) ==
  /\ pc[p] = "sweep"
  /\ \E f \in TranscriptsOf(loc[p].ids) :
       Finish(p, [Reply(200) EXCEPT !.stale = f, !.count = Cardinality(loc[p].ids)])
  /\ sessions' = [s \in SessionIds |->
                    IF s \in loc[p].ids /\ sessions[s].exists
                      THEN [sessions[s] EXCEPT !.status = "abandoned"]
                      ELSE sessions[s]]
  /\ UNCHANGED <<interviews, counter, segments, reports, nextId, config, clock, hist>>

\* GET /internal/sessions/stale, the nested read of the segments
\* (orderBy: { createdAt: "asc" }) of the sessions selected, and the reply.
SweepReply(p) ==
  /\ pc[p] = "sweep"
  /\ \E f \in TranscriptsOf(loc[p].ids) :
       Finish(p, [Reply(200) EXCEPT !.stale = f, !.count = Cardinality(loc[p].ids)])
  /\ UNCHANGED <<store, clock, hist>>

\* GET /public/sessions/:id, from the resolver's return to the reply: the row
\* as resolved (all its columns, the token among them) and its segments.
GetReply(p) ==
  /\ pc[p] = "resolved" /\ req[p].kind = "get"
  /\ \E q \in FindManyAsc(loc[p].sid) :
       Finish(p, [Reply(200) EXCEPT !.sid = loc[p].sid,
                                    !.token = loc[p].session.sessionToken,
                                    !.segments = q])
  /\ UNCHANGED <<store, clock, hist>>

\* An append handler without the status test (C11 depends on the test).
SessionIsActive_Any(session) == TRUE

\* The test of the append handler on the row as resolved.
SessionIsActive(session) == session.status = "active"

\* An insert that stores the head of the batch only (C12 depends on the whole
\* batch being written).
SegmentRows_FirstOnly(sid, batch, t) ==
  [k \in 1..1 |->
     [interviewSessionId |-> sid, role |-> batch[k].role, text |-> batch[k].text,
      createdAt |-> t, commit |-> Len(segments) + 1]]

\* The rows createMany inserts for a batch: one row per segment, all with the
\* createdAt of the statement (DEFAULT CURRENT_TIMESTAMP). `commit` is history:
\* it numbers the batches in the order they were committed.
SegmentRows(sid, batch, t) ==
  [k \in 1..Len(batch) |->
     [interviewSessionId |-> sid, role |-> batch[k].role, text |-> batch[k].text,
      createdAt |-> t, commit |-> Len(segments) + 1]]

\* A test of the batch that lets an empty list through (C25 depends on
\* segments.length === 0).
SegmentsInvalid_EmptyOk(body) ==
  "segments" \notin body.has \/ "segments" \in body.wrongType

\* !Array.isArray(segments) || segments.length === 0 -> 400
SegmentsInvalid(body) ==
  "segments" \notin body.has \/ "segments" \in body.wrongType \/ body.segments = <<>>

\* POST /public/sessions/:id/transcript-segments, from the resolver's return
\* to the reply: the status test on the row as resolved, the test of the
\* batch, and the transaction of the insert and the activity timestamp. The
\* handler read `now` when the resolver returned; the statement's timestamp is
\* taken between then and the commit.
AppendCommit(p) ==
  LET sid == loc[p].sid
      body == req[p].body
  IN /\ pc[p] = "resolved" /\ req[p].kind = "append"
     /\ IF ~SessionIsActive(loc[p].session) \/ SegmentsInvalid(body)
          THEN Finish(p, Reply(400)) /\ UNCHANGED <<sessions, segments>>
        ELSE IF ~sessions[sid].exists
          THEN Finish(p, Reply(500)) /\ UNCHANGED <<sessions, segments>>
        ELSE /\ \E t \in loc[p].now..clock :
                  segments' = segments \o SegmentRows(sid, body.segments, t)
             /\ sessions' = [sessions EXCEPT ![sid].lastActivityAt = loc[p].now]
             /\ Finish(p, [Reply(200) EXCEPT !.sid = sid])
     /\ UNCHANGED <<interviews, counter, reports, nextId, clock, hist, config>>

\* The report rows of a session (where: { interviewSessionId }).
ReportsOf(sid) == SelectSeq(reports, LAMBDA g : g.interviewSessionId = sid)

\* JavaScript truthiness of a JSON value sent as reviewJson: null, false, 0
\* and "" are falsy (the value "falsy" stands for the last three), objects and
\* arrays are truthy.
IsTruthy(v) == v \notin {"null", "falsy"}

\* The `create` / `update` data of the report upsert: collections default to
\* the empty list (?? []), a reviewJson that is absent or falsy is stored as
\* JsonNull, interviewCompleted is true unless the body says false.
ReportData(sid, body) ==
  [interviewSessionId |-> sid,
   summary |-> body.summary,
   keyQuotesJson |-> IF "keyQuotesJson" \in body.has THEN body.keyQuotesJson ELSE "[]",
   painsJson |-> IF "painsJson" \in body.has THEN body.painsJson ELSE "[]",
   opportunitiesJson |->
     IF "opportunitiesJson" \in body.has THEN body.opportunitiesJson ELSE "[]",
   reviewJson |->
     IF "reviewJson" \in body.has /\ IsTruthy(body.reviewJson)
       THEN body.reviewJson ELSE "null",
   interviewCompleted |->
     ~("interviewCompleted" \in body.has /\ ~body.interviewCompleted)]

\* typeof body.summary !== "string" -> 400
SummaryMissing(body) == "summary" \notin body.has \/ "summary" \in body.wrongType

\* interviewReport.upsert, its read: the handler's locals once the upsert has
\* looked for a report of session sid (count is 1 when it found one).
UpsertFound(sid) == [NoLoc EXCEPT !.sid = sid, !.count = Len(ReportsOf(sid))]

\* POST /public/sessions/:id/report, from the resolver's return to the
\* upsert's read: the test of the summary, then the upsert looks for a report
\* of the session.
ReportCommit(p) ==
  /\ pc[p] = "resolved" /\ req[p].kind = "report"
  /\ IF SummaryMissing(req[p].body)
       THEN Finish(p, Reply(400))
       ELSE /\ pc' = [pc EXCEPT ![p] = "upsert"]
            /\ loc' = [loc EXCEPT ![p] = UpsertFound(loc[p].sid)]
            /\ UNCHANGED <<req, reply, nreq>>
  /\ UNCHANGED <<store, clock, hist>>

\* POST /interview-sessions/:id/report up to the upsert: the owner's identity,
\* the id, the session looked up within the owner's interviews, the summary.
OwnerReportBegin(p, u, id, body) ==
  LET r == [NoReq EXCEPT !.kind = "oreport", !.user = u, !.id = id, !.body = body]
      hit == /\ FindById(id) # NoId
             /\ InterviewUserId(sessions[id].interviewId) = u
  IN /\ CanStart(p)
     /\ IF u = NoUser THEN Reject(p, r, 401)
        ELSE IF id = NoId THEN Reject(p, r, 400)
        ELSE IF ~hit THEN Reject(p, r, 404)
        ELSE IF SummaryMissing(body) THEN Reject(p, r, 400)
        ELSE Start(p, r, "find", [NoLoc EXCEPT !.sid = id])
     /\ UNCHANGED <<store, clock, hist>>

\* POST /interview-sessions/:id/report: the upsert looks for a report.
UpsertFind(p) ==
  /\ pc[p] = "find"
  /\ pc' = [pc EXCEPT ![p] = "upsert"]
  /\ loc' = [loc EXCEPT ![p] = UpsertFound(loc[p].sid)]
  /\ UNCHANGED <<store, clock, hist, req, reply, nreq>>

\* POST /internal/sessions/:id/report up to the upsert's read: the secret, the
\* id, the summary; the session itself is not looked up.
InternalReportBegin(p, id, header, body) ==
  LET r == [NoReq EXCEPT !.kind = "ireport", !.id = id, !.secret = header, !.body = body]
  IN /\ CanStart(p)
     /\ IF ~CheckInternalSecret(header) THEN Reject(p, r, SecretCode(header))
        ELSE IF id = NoId THEN Reject(p, r, 400)
        ELSE IF SummaryMissing(body) THEN Reject(p, r, 400)
        ELSE Start(p, r, "upsert", UpsertFound(id))
     /\ UNCHANGED <<store, clock, hist>>

\* An upsert into a table without the unique index on interviewSessionId (C19
\* depends on the index).
UpsertWrite_NoUniqueIndex(p) ==
  LET sid == loc[p].sid
      data == ReportData(sid, req[p].body)
  IN /\ pc[p] = "upsert"
     /\ IF loc[p].count > 0
          THEN IF ReportsOf(sid) = <<>>
                 THEN Finish(p, Reply(500)) /\ UNCHANGED reports
                 ELSE /\ reports' = [k \in 1..Len(reports) |->
                           IF reports[k].interviewSessionId = sid THEN data
                                                                  ELSE reports[k]]
                      /\ Finish(p, [Reply(200) EXCEPT !.sid = sid])
          ELSE IF FindById(sid) = NoId
                 THEN Finish(p, Reply(500)) /\ UNCHANGED reports
                 ELSE /\ reports' = Append(reports, data)
                      /\ Finish(p, [Reply(200) EXCEPT !.sid = sid])
     /\ UNCHANGED <<sessions, interviews, counter, segments, nextId, config, clock, hist>>

\* interviewReport.upsert, its write, and the reply (all three routes). A
\* report found by the read is updated (the update fails if it is gone by
\* now); otherwise a row is inserted, which fails when the session does not
\* exist (foreign key) or a report of the session has been inserted meanwhile
\* (unique index on interviewSessionId). A store that does the upsert as one
\* statement behaves as the two steps taken without another step in between.
UpsertWrite(p) ==
  LET sid == loc[p].sid
      data == ReportData(sid, req[p].body)
  IN /\ pc[p] = "upsert"
     /\ IF loc[p].count > 0
          THEN IF ReportsOf(sid) = <<>>
                 THEN Finish(p, Reply(500)) /\ UNCHANGED reports
                 ELSE /\ reports' = [k \in 1..Len(reports) |->
                           IF reports[k].interviewSessionId = sid THEN data
                                                                  ELSE reports[k]]
                      /\ Finish(p, [Reply(200) EXCEPT !.sid = sid])
          ELSE IF FindById(sid) = NoId \/ ReportsOf(sid) # <<>>
                 THEN Finish(p, Reply(500)) /\ UNCHANGED reports
                 ELSE /\ reports' = Append(reports, data)
                      /\ Finish(p, [Reply(200) EXCEPT !.sid = sid])
     /\ UNCHANGED <<sessions, interviews, counter, segments, nextId, config, clock, hist>>

\* Time passes.
Tick ==
  /\ clock < MaxTime
  /\ clock' = clock + 1
  /\ UNCHANGED <<store, pc, req, loc, reply, nreq, hist>>

\* ------------------------------------------------------------------ inputs
CompleteBody == [NoBody EXCEPT !.has = {"completed"}, !.completed = TRUE]
UncompleteBody == [NoBody EXCEPT !.has = {"completed"}, !.completed = FALSE]
FinalizeBody ==
  [NoBody EXCEPT !.has = {"status", "endedAt", "completed"},
                 !.status = "completed", !.endedAt = MaxTime, !.completed = TRUE]
AbandonBody == [NoBody EXCEPT !.has = {"status"}, !.status = "abandoned"]

Segment(text) == [role |-> "user", text |-> text]
TouchBody == [NoBody EXCEPT !.has = {"lastActivityAt"}, !.lastActivityAt = 0]
BatchA ==
  [NoBody EXCEPT !.has = {"segments"}, !.segments = <<Segment("a1"), Segment("a2")>>]
BatchB == [NoBody EXCEPT !.has = {"segments"}, !.segments = <<Segment("b1")>>]

PatchBodies == {CompleteBody, UncompleteBody, FinalizeBody, AbandonBody}

Ids == SessionIds \cup {NoId}
Toks == Tokens \cup {NoToken}

\* ------------------------------------------------------------------ requests arriving
\* A participant patches a session with the id and the token it was given.
PatchBegin(p) ==
  \E s \in SessionIds, b \in PatchBodies :
    /\ sessions[s].exists
    /\ ResolveBegin(p, PublicReq("patch", s, sessions[s].sessionToken, b))

\* The finalization job patches a session, presenting the configured secret.
InternalPatch(p) ==
  \E id \in SessionIds, b \in PatchBodies : InternalPatchBegin(p, id, InternalSecret, b)

\* An authenticated owner reads the usage metrics.
Metrics(p) == \E u \in Owners : MetricsBegin(p, u)

\* An authenticated owner deletes a session, one of an interview of theirs or not.
DeleteSession(p) == \E u \in Owners, id \in SessionIds : SessionDelete(p, u, id)

\* An authenticated owner deletes an interview of theirs.
DeleteInterview(p) == \E i \in Interviews : InterviewDelete(p, InterviewUserId(i), i)

\* ------------------------------------------------------------------ specifications
\* The completion counter and everything that writes it or the completed flag.
Next ==
  \E p \in Procs :
    \/ PatchBegin(p) \/ PatchCommit(p)
    \/ InternalPatch(p) \/ InternalPatchCommit(p)
    \/ Metrics(p) \/ MetricsCount(p) \/ MetricsWrite(p)
    \/ DeleteSession(p) \/ DeleteInterview(p)

Spec == Init /\ [][Next]_vars

\* One request at a time: slot p runs while every other slot is idle.
Alone(p) == \A q \in Procs \ {p} : pc[q] = "idle"

NextSerial ==
  \E p \in Procs :
    \/ Alone(p) /\ PatchBegin(p)
    \/ Alone(p) /\ PatchCommit(p)
    \/ Alone(p) /\ InternalPatch(p)
    \/ Alone(p) /\ InternalPatchCommit(p)
    \/ Alone(p) /\ Metrics(p)
    \/ Alone(p) /\ MetricsCount(p)
    \/ Alone(p) /\ MetricsWrite(p)
    \/ Alone(p) /\ DeleteSession(p)
    \/ Alone(p) /\ DeleteInterview(p)

SpecSerial == Init /\ [][NextSerial]_vars

\* A client that repeats the request {completed: true}, on either patch
\* route, each request answered before the next is sent.
RetryPublic(p) ==
  \E s \in SessionIds :
    /\ sessions[s].exists
    /\ ResolveBegin(p, PublicReq("patch", s, sessions[s].sessionToken, CompleteBody))

RetryInternal(p) ==
  \E id \in SessionIds : InternalPatchBegin(p, id, InternalSecret, CompleteBody)

NextRetry ==
  \E p \in Procs :
    \/ Alone(p) /\ RetryPublic(p)
    \/ Alone(p) /\ PatchCommit(p)
    \/ Alone(p) /\ RetryInternal(p)
    \/ Alone(p) /\ InternalPatchCommit(p)

SpecRetry == Init /\ [][NextRetry]_vars

\* ------------------------------------------------------------------ completion counter claims
\* Slot p takes the step that writes a patch and replies (either route).
PatchWrites(p) ==
  /\ \/ pc[p] = "resolved" /\ req[p].kind = "patch"
     \/ pc[p] = "iwrite"
  /\ pc'[p] = "idle"

\* C1: for every session that only ever received patches carrying
\* completed=true, the owner's counter was incremented for it at most once in
\* total, whatever the interleaving of those patches.
C1_ExactlyOnceUnderRaces ==
  \A s \in SessionIds : ~hist[s].unset => hist[s].incs <= 1

\* C2: when {completed: true} is sent N times one after another for a session
\* that is not completed, the first request raises the owner's counter by
\* exactly 1 and every later one by 0 (no other counter changes).
C2_RetryCountsOnce ==
  [][\A p \in Procs :
       PatchWrites(p) /\ sessions[loc[p].sid].exists =>
         LET s == loc[p].sid
             o == sessions[s].createdBy
             first == hist[s].tries = 0 /\ ~sessions[s].completed
         IN /\ counter'[o] - counter[o] = IF first THEN 1 ELSE 0
            /\ \A u \in Owners \ {o} : counter'[u] = counter[u]
            /\ sessions'[s].completed]_vars

\* C2 witness: a session took three {completed: true} patches and its owner's
\* counter was raised once for it.
C2_Witness ==
  \E s \in SessionIds :
    /\ hist[s].tries = 3 /\ hist[s].incs = 1
    /\ sessions[s].exists /\ counter[sessions[s].createdBy] >= 1

\* C3: once a session's stored completed is true, it stays true for as long as
\* the session exists.
C3_CompletedOneWay ==
  [][\A s \in SessionIds :
       sessions[s].exists /\ sessions[s].completed /\ sessions'[s].exists
         => sessions'[s].completed]_vars

\* C4: the session update of a patch that decided to increment and the counter
\* increment are visible together or not at all: in every state, each session
\* has as many such updates written as increments made for it.
C4_UpdateAndIncrementTogether ==
  \A s \in SessionIds : hist[s].applied = hist[s].incs

\* C4 witness: a qualifying patch was written: the session is completed and
\* its owner's counter holds the increment.
C4_Witness ==
  \E s \in SessionIds :
    /\ hist[s].applied = 1 /\ sessions[s].exists /\ sessions[s].completed
    /\ counter[sessions[s].createdBy] >= 1
    /\ reply.code = 200 /\ reply.sid = s /\ reply.kind \in {"patch", "ipatch"}

\* C5: a patch raises the counter of the session's creator by one exactly when
\* it carries completed=true and the stored completed is false, and leaves
\* every counter unchanged otherwise.
C5_IncrementIffStoredOpen ==
  [][\A p \in Procs :
       PatchWrites(p) =>
         LET s == loc[p].sid
             body == req[p].body
             qualifies == /\ sessions[s].exists
                          /\ "completed" \in body.has /\ body.completed
                          /\ ~sessions[s].completed
         IN counter' = IF qualifies
                         THEN [counter EXCEPT ![sessions[s].createdBy] = @ + 1]
                         ELSE counter]_vars

\* C6: no step makes an owner's counter smaller.
C6_CounterMonotonic ==
  [][\A o \in Owners : counter'[o] >= counter[o]]_vars

\* The larger of two numbers.
Max(a, b) == IF a >= b THEN a ELSE b

\* C7: a metrics read with no concurrent writer leaves the owner's counter at
\* max(stored counter, number of the owner's completed sessions), leaves the
\* other counters alone, and reports that value as sessionsCount.
C7_MetricsRaisesToMax ==
  [][\A p \in Procs :
       pc[p] = "mwrite" /\ pc'[p] = "idle" =>
         LET u == req[p].user
             want == Max(counter[u], DbCompletedCount(u))
         IN /\ counter' = [counter EXCEPT ![u] = want]
            /\ reply'.count = want]_vars

\* C7 witness: a metrics read answered with a counter it had to raise, after
\* another one answered from a counter ahead of the count of completed sessions.
C7_Witness ==
  /\ reply.kind = "metrics" /\ reply.code = 200
  /\ reply.count = counter[reply.user]
  /\ reply.count = DbCompletedCount(reply.user)
  /\ reply.count >= 1
  /\ \E o \in Owners : counter[o] > DbCompletedCount(o)

\* ------------------------------------------------------------------ resolver specification
PublicKinds == {"get", "append", "patch", "report"}

HelloBody == [NoBody EXCEPT !.has = {"segments"}, !.segments = <<Segment("hello")>>]
SummaryBody == [NoBody EXCEPT !.has = {"summary"}, !.summary = "s1"]

\* The body a caller sends on each participant-facing route.
BodyFor(kind) ==
  CASE kind = "get" -> NoBody
    [] kind = "append" -> HelloBody
    [] kind = "patch" -> AbandonBody
    [] kind = "report" -> SummaryBody

\* Any caller: the public routes take no credential but the token, and a
\* caller may send any id, any token, both or neither.
AnyGet(p) ==
  \E id \in Ids, tok \in Toks : ResolveBegin(p, PublicReq("get", id, tok, BodyFor("get")))

AnyAppend(p) ==
  \E id \in Ids, tok \in Toks : ResolveBegin(p, PublicReq("append", id, tok, BodyFor("append")))

AnyPatch(p) ==
  \E id \in Ids, tok \in Toks : ResolveBegin(p, PublicReq("patch", id, tok, BodyFor("patch")))

AnyReport(p) ==
  \E id \in Ids, tok \in Toks : ResolveBegin(p, PublicReq("report", id, tok, BodyFor("report")))

\* A participant starts an interview of a published, active interview.
Create(p) == \E slug \in Interviews : CreateBegin(p, slug, "Alex", "text")

\* The owner of a session's interview deletes the session.
DeleteOwn(p) ==
  \E id \in SessionIds :
    /\ sessions[id].exists
    /\ SessionDelete(p, InterviewUserId(sessions[id].interviewId), id)

\* Stores of sessions in progress, all of the first interview.
InitResolver ==
  /\ Init
  /\ \A s \in SessionIds :
       sessions[s].exists => ~sessions[s].completed /\ sessions[s].interviewId = 1

NextResolver ==
  \E p \in Procs :
    \/ AnyGet(p) \/ AnyAppend(p) \/ AnyPatch(p) \/ AnyReport(p)
    \/ ResolveById(p)
    \/ GetReply(p) \/ AppendCommit(p) \/ PatchCommit(p)
    \/ ReportCommit(p) \/ UpsertWrite(p)
    \/ Create(p) \/ CreateInsert(p)
    \/ DeleteOwn(p)

SpecResolver == InitResolver /\ [][NextResolver]_vars

\* ------------------------------------------------------------------ resolver claims
\* In this step slot p takes a request of a participant-facing route and its
\* handler goes on past the resolver's first read.
Takes(p) == pc[p] = "idle" /\ pc'[p] # "idle" /\ req'[p].kind \in PublicKinds

\* In this step a request of a participant-facing route is rejected on arrival.
RejectedOnArrival ==
  /\ nreq' = nreq + 1 /\ pc' = pc
  /\ reply'.kind \in PublicKinds

\* The request carries the stored token of an existing session X and the id of
\* another existing session Y.
TokenOfXIdOfY(tok, id) ==
  /\ tok # NoToken /\ FindByToken(tok) # NoId
  /\ FindById(id) # NoId /\ id # FindByToken(tok)

\* In this step slot p's handler writes and replies.
Commits(p) == pc[p] \in {"resolved", "upsert"} /\ pc'[p] = "idle"

\* Everything stored about session s: its row, its segments, its report.
Stored(s) == <<sessions[s], SegmentsOf(s), ReportsOf(s)>>

\* C8 as stated: a request with the token of X and the id of another existing
\* session Y is answered 403 and its handler never runs.
C8_MismatchIsForbidden ==
  [][/\ \A p \in Procs :
          Takes(p) => ~TokenOfXIdOfY(req'[p].token, req'[p].id)
     /\ RejectedOnArrival /\ TokenOfXIdOfY(reply'.by, reply'.id)
          => reply'.code = 403]_vars

\* C8 as amended: a request with the token of X and the id of another existing
\* session Y resolves X: it is not rejected, its handler goes on with the row
\* of X, and what the handler writes is written to X and to no other session.
C8_TokenWinsOverId ==
  [][/\ \A p \in Procs :
          Takes(p) /\ TokenOfXIdOfY(req'[p].token, req'[p].id)
            => /\ pc'[p] = "resolved"
               /\ loc'[p].sid = FindByToken(req'[p].token)
               /\ loc'[p].session = sessions[FindByToken(req'[p].token)]
     /\ ~(RejectedOnArrival /\ TokenOfXIdOfY(reply'.by, reply'.id))
     /\ \A p \in Procs :
          Commits(p) =>
            /\ \A s \in SessionIds \ {loc[p].sid} : Stored(s)' = Stored(s)
            /\ reply'.code = 200 => reply'.sid = loc[p].sid]_vars

\* C8 witness: the first request carried the token of one session and the id
\* of another, and was answered 200 after acting on the session of the token.
C8_Witness ==
  /\ nreq = 1 /\ reply.code = 200 /\ reply.kind = "patch"
  /\ TokenOfXIdOfY(reply.by, reply.id)
  /\ reply.sid = FindByToken(reply.by)
  /\ sessions[reply.sid].status = "abandoned"
  /\ sessions[reply.id].status = "active"

\* C9: whenever a token is supplied, the session the resolver hands to the
\* handler has that token as its stored token; and a token that matches no
\* session, sent with the id of an existing session, is answered 403.
C9_ResolvedRowHasTheToken ==
  [][\A p \in Procs :
       /\ pc[p] \in {"idle", "byId"} /\ pc'[p] = "resolved" /\ req'[p].token # NoToken
            => /\ loc'[p].session.sessionToken = req'[p].token
               /\ sessions[loc'[p].sid] = loc'[p].session
       /\ pc[p] = "byId" /\ pc'[p] # "byId"
            /\ FindByToken(req[p].token) = NoId /\ FindById(req[p].id) # NoId
            => pc'[p] = "idle" /\ reply'.code = 403]_vars

\* C9 witness: the first request carried a token no session has and the id of
\* an existing session, and was answered 403.
C9_Witness ==
  /\ nreq = 1 /\ reply.code = 403 /\ reply.kind \in PublicKinds
  /\ reply.by # NoToken /\ FindByToken(reply.by) = NoId
  /\ FindById(reply.id) # NoId

\* C10: on the participant-facing routes a request with an id and no token is
\* never answered 200 (no read, no write).
C10_IdAloneNeverSucceeds ==
  ~(reply.kind \in PublicKinds /\ reply.by = NoToken /\ reply.code = 200)

\* ------------------------------------------------------------------ transcript specification
\* A participant appends a batch to a session, with the id and token given.
AppendBatch(p) ==
  \E s \in SessionIds, b \in {BatchA, BatchB} :
    /\ sessions[s].exists
    /\ ResolveBegin(p, PublicReq("append", s, sessions[s].sessionToken, b))

\* A participant reads a session and its transcript.
GetSession(p) ==
  \E s \in SessionIds :
    /\ sessions[s].exists
    /\ ResolveBegin(p, PublicReq("get", s, sessions[s].sessionToken, NoBody))

\* A participant's client ends the session or reports its last activity.
LogPatch(p) ==
  \E s \in SessionIds, b \in {AbandonBody, TouchBody} :
    /\ sessions[s].exists
    /\ ResolveBegin(p, PublicReq("patch", s, sessions[s].sessionToken, b))

NextLog ==
  \/ \E p \in Procs :
       \/ AppendBatch(p) \/ AppendCommit(p)
       \/ GetSession(p) \/ GetReply(p)
       \/ LogPatch(p) \/ PatchCommit(p)
       \/ DeleteOwn(p)
  \/ Tick

SpecLog == InitResolver /\ [][NextLog]_vars

NextLogSerial ==
  \/ \E p \in Procs :
       \/ Alone(p) /\ AppendBatch(p)
       \/ Alone(p) /\ AppendCommit(p)
       \/ Alone(p) /\ GetSession(p)
       \/ Alone(p) /\ GetReply(p)
       \/ Alone(p) /\ LogPatch(p)
       \/ Alone(p) /\ PatchCommit(p)
       \/ Alone(p) /\ DeleteOwn(p)
  \/ Tick

SpecLogSerial == InitResolver /\ [][NextLogSerial]_vars

\* ------------------------------------------------------------------ transcript claims
\* Slot p takes the step that ends an append: the tests, the write, the reply.
AppendEnds(p) == pc[p] = "resolved" /\ req[p].kind = "append" /\ pc'[p] = "idle"

\* C11: an append call that finds the session's stored status other than
\* "active" is answered 400, inserts no segment and leaves lastActivityAt (and
\* every session) as it was, whatever else is in flight. (The row as the call
\* read it is the stored row of that moment; a status that changes after the
\* read is the subject of C29.)
C11_AppendNeedsActive ==
  [][\A p \in Procs :
       AppendEnds(p) /\ loc[p].session.status # "active"
         => /\ reply'.code = 400
            /\ segments' = segments
            /\ sessions' = sessions]_vars

\* C11 witness: the last request, an append with a proper batch on a session
\* that had been ended, was answered 400 and the session has no segment.
C11_Witness ==
  /\ reply.kind = "append" /\ reply.code = 400
  /\ sessions[reply.id].exists /\ sessions[reply.id].status = "abandoned"
  /\ SegmentsOf(reply.id) = <<>>

\* The texts of a sequence of segments, in order.
Texts(q) == [k \in 1..Len(q) |-> q[k].text]

\* C12: an append that succeeds adds the whole batch, in order, and sets
\* lastActivityAt to the time the handler read, in one step; an append that
\* fails changes no segment and no session; and no other step adds segments.
C12_AppendAllOrNothing ==
  [][/\ \A p \in Procs :
          AppendEnds(p) =>
            \A s \in {loc[p].sid}, batch \in {req[p].body.segments} :
               \/ /\ reply'.code = 200
                  /\ Texts(SegmentsOf(s)') = Texts(SegmentsOf(s)) \o Texts(batch)
                  /\ Len(segments') = Len(segments) + Len(batch)
                  /\ sessions'[s].lastActivityAt = loc[p].now
                  /\ \A x \in SessionIds \ {s} : sessions'[x] = sessions[x]
               \/ /\ reply'.code # 200
                  /\ segments' = segments
                  /\ sessions' = sessions
     /\ Len(segments') > Len(segments) => \E p \in Procs : AppendEnds(p)]_vars

\* C12 witness: the last request, an append of the batch of two, was answered
\* 200; both segments are stored and lastActivityAt is the (later) append time.
C12_Witness ==
  /\ reply.kind = "append" /\ reply.code = 200
  /\ Texts(SegmentsOf(reply.sid)) = <<"a1", "a2">>
  /\ sessions[reply.sid].lastActivityAt = 1

\* C13: no step stores, for a session, a lastActivityAt earlier than the one
\* stored before.
C13_LastActivityMonotonic ==
  [][\A s \in SessionIds :
       sessions[s].exists /\ sessions'[s].exists
         => sessions'[s].lastActivityAt >= sessions[s].lastActivityAt]_vars

\* Slot p takes the step that answers a read of a session and its transcript.
GetEnds(p) == pc[p] = "resolved" /\ req[p].kind = "get" /\ pc'[p] = "idle"

\* C14: with each request answered before the next is sent, a read returns
\* the session's segments sorted by creation time, the batches in the order
\* they were appended and the segments of a batch in the batch's order: the
\* order in which they were inserted (so every read returns the same order).
C14_ReadReturnsAppendOrder ==
  [][\A p \in Procs :
       GetEnds(p) =>
         /\ SortedByCreatedAt(reply'.segments)
         /\ reply'.segments = SegmentsOf(loc[p].sid)]_vars

\* C15: a read returns the batches appended to the session, concurrently or
\* not, one after the other in commit order: a segment of a batch committed
\* later never comes before a segment of a batch committed earlier.
C15_BatchesInCommitOrder ==
  [][\A p \in Procs :
       GetEnds(p) =>
         \A i, j \in 1..Len(reply'.segments) :
           i < j => reply'.segments[i].commit <= reply'.segments[j].commit]_vars

\* ------------------------------------------------------------------ report specification
\* Report payloads: a full one of an interview that was broken off, one with
\* the summary alone, and one whose review payload is the JSON value false.
FullReport ==
  [NoBody EXCEPT !.has = {"summary", "keyQuotesJson", "painsJson", "opportunitiesJson",
                          "reviewJson", "interviewCompleted"},
                 !.summary = "s1", !.keyQuotesJson = "q1", !.painsJson = "p1",
                 !.opportunitiesJson = "o1", !.reviewJson = "r1",
                 !.interviewCompleted = FALSE]

SummaryOnly == [NoBody EXCEPT !.has = {"summary"}, !.summary = "s2"]

FalseReview ==
  [NoBody EXCEPT !.has = {"summary", "keyQuotesJson", "reviewJson"},
                 !.summary = "s3", !.keyQuotesJson = "q3", !.reviewJson = "falsy"]

ReportBodies == {FullReport, SummaryOnly, FalseReview, NoBody}

\* The analysis of a session is stored through the participant-facing route,
\* with the session's id and token.
PublicReport(p) ==
  \E s \in SessionIds, b \in ReportBodies :
    /\ sessions[s].exists
    /\ ResolveBegin(p, PublicReq("report", s, sessions[s].sessionToken, b))

\* Anyone, signed in or not, stores a report through the owner's route.
OwnerReport(p) ==
  \E u \in Owners \cup {NoUser}, id \in Ids, b \in {FullReport, SummaryOnly, NoBody} :
    OwnerReportBegin(p, u, id, b)

\* The privileged caller, or one without the secret, stores a report.
InternalReport(p) ==
  \E id \in Ids, h \in {InternalSecret, "none"}, b \in {FullReport, FalseReview, NoBody} :
    InternalReportBegin(p, id, h, b)

NextReport ==
  \E p \in Procs :
    \/ PublicReport(p) \/ ReportCommit(p)
    \/ OwnerReport(p) \/ UpsertFind(p)
    \/ InternalReport(p)
    \/ UpsertWrite(p)
    \/ DeleteOwn(p)

SpecReport == InitResolver /\ [][NextReport]_vars

NextReportSerial ==
  \E p \in Procs :
    \/ Alone(p) /\ PublicReport(p)
    \/ Alone(p) /\ ReportCommit(p)
    \/ Alone(p) /\ OwnerReport(p)
    \/ Alone(p) /\ UpsertFind(p)
    \/ Alone(p) /\ InternalReport(p)
    \/ Alone(p) /\ UpsertWrite(p)
    \/ Alone(p) /\ DeleteOwn(p)

SpecReportSerial == InitResolver /\ [][NextReportSerial]_vars

\* ------------------------------------------------------------------ report claims
\* C19: a session never has more than one report, whichever of the three
\* routes the upserts come through and however their steps interleave.
C19_OneReportPerSession ==
  \A s \in SessionIds : Len(ReportsOf(s)) <= 1

\* C19 witness: two first upserts for one session ran side by side: both
\* found no report, one of them has inserted its row and was answered 200, the
\* other has yet to write.
C19_Witness ==
  /\ reply.code = 200 /\ reply.kind \in {"report", "oreport", "ireport"}
  /\ \E p \in Procs :
       /\ pc[p] = "upsert" /\ loc[p].count = 0
       /\ reply.sid = loc[p].sid
       /\ Len(ReportsOf(loc[p].sid)) = 1

\* In this step a report upsert of slot p writes and is answered 200.
UpsertEnds(p) == pc[p] = "upsert" /\ pc'[p] = "idle" /\ reply'.code = 200

\* The report a call asks for: its summary, its collections (the empty list
\* for one it omits), its review payload (absent if omitted), its
\* interviewCompleted (true if omitted).
Sent(sid, body) ==
  [interviewSessionId |-> sid,
   summary |-> body.summary,
   keyQuotesJson |-> IF "keyQuotesJson" \in body.has THEN body.keyQuotesJson ELSE "[]",
   painsJson |-> IF "painsJson" \in body.has THEN body.painsJson ELSE "[]",
   opportunitiesJson |->
     IF "opportunitiesJson" \in body.has THEN body.opportunitiesJson ELSE "[]",
   reviewJson |-> IF "reviewJson" \in body.has THEN body.reviewJson ELSE "null",
   interviewCompleted |->
     IF "interviewCompleted" \in body.has THEN body.interviewCompleted ELSE TRUE]

\* C20: an upsert for a session that has a report leaves exactly one report,
\* and its summary, key quotes, pains, opportunities, review payload and
\* interviewCompleted are those of this call.
C20_UpsertIsFullReplace ==
  [][\A p \in Procs :
       \A s \in {loc[p].sid}, b \in {req[p].body} :
         UpsertEnds(p) /\ ReportsOf(s) # <<>>
           => ReportsOf(s)' = <<Sent(s, b)>>]_vars

\* ------------------------------------------------------------------ creation specification
\* What a participant may send to start an interview: a slug (0 is blank,
\* NumOwners + 1 matches nothing), a name and a mode.
CreateInputs ==
  {<<slug, "Alex", "text">> : slug \in 0..(NumOwners + 1)}
    \cup {<<1, "", "text">>, <<1, "Alex", "video">>}

CreateAny(p) == \E c \in CreateInputs : CreateBegin(p, c[1], c[2], c[3])

\* An owner publishes or unpublishes an interview of theirs.
Toggle(p) ==
  \E i \in Interviews, a \in BOOLEAN : ToggleActive(p, InterviewUserId(i), i, a)

\* An owner edits the company information.
EditCompany(p) == \E u \in Owners, v \in Versions : CompanyInfoPut(p, u, v)

\* An owner edits the research of an interview of theirs.
EditResearch(p) ==
  \E i \in Interviews, v \in Versions : ResearchUpdate(p, InterviewUserId(i), i, v)

\* The maintenance job lists the stale sessions.
Sweep(p) == \E n \in {0, MinMinutes} : StaleSweep(p, InternalSecret, MinutesText(n))

NextCreate ==
  \E p \in Procs :
    \/ CreateAny(p) \/ CreateInsert(p)
    \/ Toggle(p) \/ EditCompany(p) \/ EditResearch(p)
    \/ PatchBegin(p) \/ PatchCommit(p)
    \/ AppendBatch(p) \/ AppendCommit(p)
    \/ PublicReport(p) \/ ReportCommit(p) \/ UpsertWrite(p)
    \/ Sweep(p) \/ SweepReply(p)

SpecCreate == InitResolver /\ [][NextCreate]_vars

\* ------------------------------------------------------------------ creation claims
\* Slot p takes the step that inserts a session (or fails to).
InsertEnds(p) == pc[p] = "insert" /\ pc'[p] = "idle"

\* C16: a session is created with the snapshots its handler built from the
\* configuration it read, and no later step changes either snapshot, whatever
\* is edited, patched, appended, reported or listed afterwards.
C16_SnapshotsFrozen ==
  [][/\ \A s \in SessionIds :
          sessions[s].exists /\ sessions'[s].exists =>
            /\ sessions'[s].globalContextSnapshot = sessions[s].globalContextSnapshot
            /\ sessions'[s].researchContextSnapshot = sessions[s].researchContextSnapshot
     /\ \A p \in Procs, s \in SessionIds :
          InsertEnds(p) /\ ~sessions[s].exists /\ sessions'[s].exists =>
            /\ sessions'[s].globalContextSnapshot = loc[p].globalContextSnapshot
            /\ sessions'[s].researchContextSnapshot = loc[p].researchContextSnapshot]_vars

\* C16 witness: a session holds the company information of version 1 as its
\* snapshot while its owner's company information is version 0 again.
C16_Witness ==
  \E s \in SessionIds :
    /\ sessions[s].exists /\ sessions[s].globalContextSnapshot = 1
    /\ config.company[sessions[s].createdBy] = 0
    /\ reply.kind = "company" /\ reply.code = 200

\* No two sessions have the same token.
TokensUnique ==
  \A s1, s2 \in SessionIds :
    sessions[s1].exists /\ sessions[s2].exists /\ s1 # s2
      => sessions[s1].sessionToken # sessions[s2].sessionToken

\* C17: in every state no two sessions have the same sessionToken, and no step
\* changes the token of an existing session.
C17_TokenUniqueAndFixed ==
  [][/\ TokensUnique'
     /\ \A s \in SessionIds :
          sessions[s].exists /\ sessions'[s].exists
            => sessions'[s].sessionToken = sessions[s].sessionToken]_vars

\* C17 witness: the last request, a creation that drew the token of a stored
\* session, was refused by the store, and the tokens are still unique.
C17_Witness ==
  /\ reply.kind = "create" /\ reply.code = 500
  /\ \E s \in SessionIds : sessions[s].exists
  /\ \A i \in Interviews : interviews[i].exists
  /\ TokensUnique

\* C18: a well-formed create request whose slug matches no interview that is
\* active when the handler looks it up is answered 404 and creates nothing
\* (an ill-formed one creates nothing either); a handler goes on to insert
\* only after finding an active interview; and every session that comes to
\* exist was inserted by such a handler, for that interview, with status
\* "active" and completed = false.
C18_CreateNeedsActiveInterview ==
  [][/\ (nreq' = nreq + 1 /\ pc' = pc /\ reply'.kind = "create") =>
          /\ sessions' = sessions
          /\ (reply'.slug # 0 /\ reply'.participantName # "" /\ reply'.mode \in modes)
               => reply'.code = 404
          /\ reply'.code = 404 =>
               ~(/\ reply'.slug \in Interviews
                 /\ interviews[reply'.slug].exists /\ interviews[reply'.slug].active)
     /\ \A p \in Procs :
          pc[p] = "idle" /\ pc'[p] = "insert" =>
            /\ req'[p].slug \in Interviews
            /\ interviews[req'[p].slug].exists /\ interviews[req'[p].slug].active
     /\ \A s \in SessionIds :
          ~sessions[s].exists /\ sessions'[s].exists =>
            /\ sessions'[s].status = "active" /\ ~sessions'[s].completed
            /\ \E p \in Procs : InsertEnds(p) /\ sessions'[s].interviewId = req[p].slug]_vars

\* C18 witness: the last request, a well-formed create for an interview its
\* owner had switched off, was answered 404.
C18_Witness ==
  /\ reply.kind = "create" /\ reply.code = 404
  /\ reply.slug \in Interviews /\ reply.participantName = "Alex" /\ reply.mode = "text"
  /\ interviews[reply.slug].exists /\ ~interviews[reply.slug].active

\* ------------------------------------------------------------------ sweep specification
\* The times the clock (in minutes) is read at: around the smallest, the
\* default and the largest threshold.
SweepTimes == {5, 6, 30, 31, 61}

\* Minutes pass between two requests (a handler takes far less than one).
Elapse ==
  /\ \A p \in Procs : pc[p] = "idle"
  /\ \E t \in SweepTimes : t > clock /\ clock' = t
  /\ UNCHANGED <<store, pc, req, loc, reply, nreq, hist>>

\* The values of the minutes parameter the maintenance job may send.
SweepQueries ==
  {NoMinutes, NotANumber}
    \cup {MinutesText(n) : n \in {-7, 0, 4, 5, 6, 60, 61}}

\* The maintenance job lists the stale sessions, with any minutes parameter.
SweepAny(p) == \E q \in SweepQueries : StaleSweep(p, InternalSecret, q)

NextSweep ==
  \/ \E p \in Procs :
       \/ SweepAny(p) \/ SweepReply(p)
       \/ AppendBatch(p) \/ AppendCommit(p)
       \/ LogPatch(p) \/ PatchCommit(p)
       \/ DeleteOwn(p)
  \/ Elapse

SpecSweep == InitResolver /\ [][NextSweep]_vars

\* ------------------------------------------------------------------ sweep claims
\* Slot p's sweep selects its sessions in this step.
SweepSelects(p) == pc[p] = "idle" /\ pc'[p] = "sweep"

\* Slot p's sweep reads the transcripts and replies in this step.
SweepEnds(p) == pc[p] = "sweep" /\ pc'[p] = "idle"

\* q holds the rows of `rows`, each once.
SameRows(q, rows) ==
  /\ Len(q) = Len(rows)
  /\ {q[k] : k \in 1..Len(q)} = {rows[k] : k \in 1..Len(rows)}

\* C21: the sweep selects exactly the sessions that are stored with status
\* "active" and a lastActivityAt strictly before the time of the call minus the
\* effective threshold, and it returns each of them with all its segments, in
\* non-decreasing order of their creation time.
C21_SweepReturnsTheStale ==
  [][\A p \in Procs :
       /\ SweepSelects(p) =>
            \A s \in SessionIds :
              s \in loc'[p].ids <=>
                /\ sessions[s].exists
                /\ sessions[s].status = "active"
                /\ sessions[s].lastActivityAt < clock - EffectiveMinutes(req'[p].minutes)
       /\ SweepEnds(p) =>
            /\ DOMAIN reply'.stale = loc[p].ids
            /\ \A s \in loc[p].ids :
                 /\ SortedByCreatedAt(reply'.stale[s])
                 /\ SameRows(reply'.stale[s], SegmentsOf(s))]_vars

\* C21 witness: a sweep returned a session with its transcript of several
\* segments, and left out a session that is active but was active too recently
\* and one could not have been left out for its status.
C21_Witness ==
  /\ reply.kind = "stale" /\ reply.code = 200
  /\ \E s \in DOMAIN reply.stale : Len(reply.stale[s]) >= 2
  /\ \E s \in SessionIds \ DOMAIN reply.stale :
       sessions[s].exists /\ sessions[s].status = "active"

\* In this step a sweep is rejected on arrival.
SweepRejected == nreq' = nreq + 1 /\ pc' = pc /\ reply'.kind = "stale"

\* C22: no step of a sweep changes a session, a segment, a report or a
\* counter (nor anything else that is stored).
C22_SweepIsReadOnly ==
  [][(SweepRejected \/ \E p \in Procs : SweepSelects(p) \/ SweepEnds(p))
       => store' = store]_vars

\* C22 witness: a sweep has returned sessions, and they are still active.
C22_Witness ==
  /\ reply.kind = "stale" /\ reply.code = 200
  /\ DOMAIN reply.stale # {}
  /\ \A s \in DOMAIN reply.stale : sessions[s].exists /\ sessions[s].status = "active"

\* C23: the threshold a sweep works with (the time of the call minus its
\* cutoff) is between 5 and 60 minutes: 5 for a value below 5 other than zero,
\* 60 for a value above 60, the value itself in between, and 30 for an
\* absent, non-numeric or zero value.
C23_ThresholdClamped ==
  \A p \in Procs :
    pc[p] = "sweep" =>
      \A q \in {req[p].minutes}, m \in {loc[p].now - loc[p].cutoff} :
        /\ m \in 5..60
        /\ (~q.given \/ ~q.numeric \/ q.n = 0) => m = 30
        /\ (q.given /\ q.numeric /\ q.n # 0 /\ q.n < 5) => m = 5
        /\ (q.given /\ q.numeric /\ q.n > 60) => m = 60
        /\ (q.given /\ q.numeric /\ q.n \in 5..60) => m = q.n

\* C23 witness: sweeps worked with a negative value of the parameter.
C23_Witness ==
  \E p \in Procs :
    /\ pc[p] = "sweep"
    /\ req[p].minutes.numeric /\ req[p].minutes.n < 0
    /\ loc[p].now - loc[p].cutoff = 5

\* ------------------------------------------------------------------ patch specification
\* A patch with every field the participant-facing route takes.
FullPatch ==
  [NoBody EXCEPT !.has = PublicPatchFields,
                 !.status = "completed", !.endedAt = MaxTime, !.completed = TRUE,
                 !.lastActivityAt = MaxTime, !.compiledPromptHash = "h1"]

AllPatchBodies == PatchBodies \cup {TouchBody, FullPatch, NoBody}

\* A participant's client patches a session, with any of the bodies.
PatchAny(p) ==
  \E s \in SessionIds, b \in AllPatchBodies :
    /\ sessions[s].exists
    /\ ResolveBegin(p, PublicReq("patch", s, sessions[s].sessionToken, b))

\* The maintenance job patches a session, with any of the bodies.
InternalPatchAny(p) ==
  \E id \in SessionIds, b \in AllPatchBodies : InternalPatchBegin(p, id, InternalSecret, b)

NextPatch ==
  \E p \in Procs :
    \/ PatchAny(p) \/ PatchCommit(p)
    \/ InternalPatchAny(p) \/ InternalPatchCommit(p)

SpecPatch == Init /\ [][NextPatch]_vars

NextPatchSerial ==
  \E p \in Procs :
    \/ Alone(p) /\ PatchAny(p)
    \/ Alone(p) /\ PatchCommit(p)
    \/ Alone(p) /\ InternalPatchAny(p)
    \/ Alone(p) /\ InternalPatchCommit(p)

SpecPatchSerial == Init /\ [][NextPatchSerial]_vars

\* ------------------------------------------------------------------ patch claims
\* In this step slot p's patch, of either route, writes and replies.
PatchEnds(p) ==
  /\ \/ pc[p] = "resolved" /\ req[p].kind = "patch"
     \/ pc[p] = "iwrite"
  /\ pc'[p] = "idle"

\* The fields a patch may change.
PatchableFields == {"status", "endedAt", "completed", "lastActivityAt", "compiledPromptHash"}

\* C24: a patch changes no field of any session but fields of its own session
\* that are present in its body and are among status, endedAt, completed,
\* lastActivityAt and compiledPromptHash; every other field of every session
\* (token, interview, creator, snapshots among them) keeps its value.
C24_PatchChangesOnlyWhatItCarries ==
  [][\A p \in Procs :
       PatchEnds(p) =>
         \A s \in SessionIds, f \in DOMAIN NoSession :
           (s # loc[p].sid \/ f \notin (req[p].body.has \cap PatchableFields))
             => sessions'[s][f] = sessions[s][f]]_vars

\* C24 witness: a patch that carried the status alone has ended a completed
\* session that had an end time: it is still completed and has its end time.
C24_Witness ==
  /\ reply.kind \in {"patch", "ipatch"} /\ reply.code = 200
  /\ sessions[reply.sid].status = "abandoned"
  /\ sessions[reply.sid].completed
  /\ sessions[reply.sid].endedAt = MaxTime
  /\ sessions[reply.sid].compiledPromptHash = "h1"

\* The session that a patch with `body` makes of the stored row, whichever
\* route it comes by, when the body has no field but status, endedAt, completed.
Patched(row, body) ==
  [row EXCEPT !.status = IF "status" \in body.has THEN body.status ELSE @,
              !.endedAt = IF "endedAt" \in body.has THEN body.endedAt ELSE @,
              !.completed = IF "completed" \in body.has THEN body.completed ELSE @]

\* The completion guard: the counter of the session's creator goes up by one
\* when the body carries completed = true and the stored row is not completed.
Counted(cnt, row, body) ==
  IF "completed" \in body.has /\ body.completed /\ ~row.completed
    THEN [cnt EXCEPT ![row.createdBy] = @ + 1]
    ELSE cnt

\* C28: with requests served one after the other, a patch whose body has no
\* field but status, endedAt and completed leaves the session and the counters
\* the same function of the stored session and the body on both routes.
C28_SameGuardOnBothPaths ==
  [][\A p \in Procs :
       \A s \in {loc[p].sid}, b \in {req[p].body} :
         PatchEnds(p) /\ reply'.code = 200 /\ b.has \subseteq {"status", "endedAt", "completed"}
           => /\ sessions' = [sessions EXCEPT ![s] = Patched(sessions[s], b)]
              /\ counter' = Counted(counter, sessions[s], b)]_vars

\* C28 witness: the privileged route has completed a session and counted it
\* after the participant-facing route had done the same for another session
\* of the same owner.
C28_Witness ==
  /\ reply.kind = "ipatch" /\ reply.code = 200
  /\ hist[reply.sid].incs = 1
  /\ \E s \in SessionIds \ {reply.sid} :
       /\ hist[s].incs = 1
       /\ sessions[s].createdBy = sessions[reply.sid].createdBy
       /\ counter[sessions[s].createdBy] = 2

\* ------------------------------------------------------------------ validation specification
\* Append bodies that fail the handler's test: no segments, segments that are
\* not a list, an empty list.
NotAList == [NoBody EXCEPT !.has = {"segments"}, !.wrongType = {"segments"}]
EmptyList == [NoBody EXCEPT !.has = {"segments"}]

\* A report body whose summary is not a string.
NumberSummary ==
  [NoBody EXCEPT !.has = {"summary", "keyQuotesJson"}, !.wrongType = {"summary"},
                 !.keyQuotesJson = "q4"]

\* A participant appends, with a good or a bad body.
AppendAny(p) ==
  \E s \in SessionIds, b \in {BatchB, NoBody, NotAList, EmptyList} :
    /\ sessions[s].exists
    /\ ResolveBegin(p, PublicReq("append", s, sessions[s].sessionToken, b))

\* A report arrives on the participant-facing or on the privileged route, with
\* a good or a bad body.
ReportAny(p) ==
  \E s \in SessionIds, b \in {SummaryOnly, NoBody, NumberSummary} :
    /\ sessions[s].exists
    /\ \/ ResolveBegin(p, PublicReq("report", s, sessions[s].sessionToken, b))
       \/ InternalReportBegin(p, s, InternalSecret, b)
       \/ OwnerReportBegin(p, sessions[s].createdBy, s, b)

NextValidation ==
  \/ \E p \in Procs :
       \/ CreateAny(p) \/ CreateInsert(p)
       \/ AppendAny(p) \/ AppendCommit(p)
       \/ ReportAny(p) \/ ReportCommit(p) \/ UpsertFind(p) \/ UpsertWrite(p)
  \/ Tick

SpecValidation == InitResolver /\ [][NextValidation]_vars

\* ------------------------------------------------------------------ validation claims
\* The input of request r is invalid: a session creation without slug or
\* participant name or with a mode other than text and voice, an append
\* without a non-empty list of segments, a report without a summary string.
InvalidInput(r) ==
  \/ /\ r.kind = "create"
     /\ r.slug = 0 \/ r.participantName = "" \/ r.mode \notin {"text", "voice"}
  \/ /\ r.kind = "append"
     /\ \/ "segments" \notin r.body.has
        \/ "segments" \in r.body.wrongType
        \/ r.body.segments = <<>>
  \/ /\ r.kind \in {"report", "oreport", "ireport"}
     /\ "summary" \notin r.body.has \/ "summary" \in r.body.wrongType

\* C25: no step of the handling of a request with invalid input changes the
\* store, and the request is not answered 200; a request answered 400 on
\* arrival has changed nothing either.
C25_RejectedInputWritesNothing ==
  [][/\ \A p \in Procs :
          /\ (pc[p] = "idle" /\ pc'[p] # "idle" /\ InvalidInput(req'[p]))
               => store' = store
          /\ (pc[p] # "idle" /\ pc'[p] # pc[p] /\ InvalidInput(req[p]))
               => store' = store /\ (pc'[p] = "idle" => reply'.code # 200)
     /\ (nreq' = nreq + 1 /\ pc' = pc /\ reply'.code = 400) => store' = store]_vars

\* C25 witness: a report whose summary is not a string was answered 400 for a
\* session that has no report, after time had passed since the session's last
\* activity.
C25_Witness ==
  /\ reply.kind \in {"report", "ireport", "oreport"} /\ reply.code = 400
  /\ reply.id \in SessionIds /\ sessions[reply.id].exists
  /\ ReportsOf(reply.id) = <<>>
  /\ clock > sessions[reply.id].lastActivityAt

\* ------------------------------------------------------------------ deletion specification
\* Anyone, signed in or not, asks for the deletion of a session.
DeleteAny(p) == \E u \in Owners \cup {NoUser}, id \in Ids : SessionDelete(p, u, id)

\* The privileged caller stores a report for an id, of a session or not.
InternalReportAnyId(p) ==
  \E id \in SessionIds : InternalReportBegin(p, id, InternalSecret, SummaryOnly)

NextDelete ==
  \E p \in Procs :
    \/ DeleteAny(p)
    \/ AppendBatch(p) \/ AppendCommit(p)
    \/ InternalReportAnyId(p) \/ UpsertWrite(p)
    \/ Create(p) \/ CreateInsert(p)

SpecDelete == InitResolver /\ [][NextDelete]_vars

\* ------------------------------------------------------------------ deletion claims
\* In this step a session deletion is answered.
DeleteAnswered == nreq' = nreq + 1 /\ pc' = pc /\ reply'.kind = "delete"

\* No segment and no report refers to a session that does not exist.
NoOrphans ==
  /\ \A k \in 1..Len(segments) : FindById(segments[k].interviewSessionId) # NoId
  /\ \A k \in 1..Len(reports) : FindById(reports[k].interviewSessionId) # NoId

\* C26: a deletion asked for by the owner of the session's interview removes
\* the session, its segments and its report and nothing else; asked for by
\* anyone else, or for a session that does not exist, it is refused (404 for
\* another owner) and removes nothing. After every step, deletion or not, no
\* segment or report refers to a session that does not exist.
C26_DeleteIsScopedAndCascades ==
  [][/\ DeleteAnswered =>
          \A u \in {reply'.user}, id \in {reply'.id} :
            IF /\ u # NoUser /\ id \in SessionIds /\ sessions[id].exists
               /\ InterviewUserId(sessions[id].interviewId) = u
              THEN /\ reply'.code = 200
                   /\ ~sessions'[id].exists
                   /\ SegmentsOf(id)' = <<>> /\ ReportsOf(id)' = <<>>
                   /\ \A s \in SessionIds \ {id} :
                        /\ sessions'[s] = sessions[s]
                        /\ SegmentsOf(s)' = SegmentsOf(s)
                        /\ ReportsOf(s)' = ReportsOf(s)
              ELSE /\ store' = store
                   /\ (u # NoUser /\ id # NoId) => reply'.code = 404
     /\ NoOrphans']_vars

\* C26 witness: a deletion has removed a session together with segments that
\* were stored before those of a session that is left (a remaining row was
\* committed later than its place in the table tells).
C26_Witness ==
  /\ reply.kind = "delete" /\ reply.code = 200
  /\ ~sessions[reply.id].exists
  /\ \E k \in 1..Len(segments) : segments[k].commit > k

\* ------------------------------------------------------------------ privileged surface specification
\* Deployments with and without an internal secret.
InitInternal ==
  /\ InitRest
  /\ \E s \in {InternalSecret, NoSecret} : config = InitConfig(s)
  /\ \A s \in SessionIds :
       sessions[s].exists => ~sessions[s].completed /\ sessions[s].interviewId = 1

\* The headers a caller may present: x-internal-secret absent, right or
\* wrong, Authorization absent, or right or wrong with or without "Bearer ".
PresentedHeaders ==
  {InternalHeader(x, a) :
     x \in {"none", InternalSecret, "guess"},
     a \in {NoAuthorization} \cup
           {Authorization(b, v) : b \in BOOLEAN, v \in {InternalSecret, "guess"}}}

\* Any caller lists the stale sessions.
CallSweep(p) ==
  \E h \in PresentedHeaders : StaleSweep(p, h, MinutesText(MinMinutes))

\* Any caller patches a session through the privileged route.
CallInternalPatch(p) ==
  \E h \in PresentedHeaders, id \in Ids, b \in {FinalizeBody, AbandonBody} :
    InternalPatchBegin(p, id, h, b)

\* Any caller stores a report through the privileged route.
CallInternalReport(p) ==
  \E h \in PresentedHeaders, id \in Ids, b \in {SummaryOnly, NoBody} :
    InternalReportBegin(p, id, h, b)

NextInternal ==
  \/ \E p \in Procs :
       \/ CallSweep(p) \/ SweepReply(p)
       \/ CallInternalPatch(p) \/ InternalPatchCommit(p)
       \/ CallInternalReport(p) \/ UpsertWrite(p)
  \/ Elapse

SpecInternal == InitInternal /\ [][NextInternal]_vars

\* ------------------------------------------------------------------ privileged surface claims
InternalKinds == {"stale", "ipatch", "ireport"}

\* The header is not the configured secret, or no secret is configured.
NotTheSecret(header) ==
  config.secret \in {NoSecret, ""} \/ header # config.secret

\* C27: a request to the privileged surface whose header is not the
\* configured secret, or that comes when no secret is configured, is answered
\* 401 or 501 on arrival, with no session data and with nothing written; only
\* requests with exactly the configured secret get any further.
C27_SecretGuardsPrivilegedSurface ==
  [][/\ (nreq' = nreq + 1 /\ pc' = pc /\ reply'.kind \in InternalKinds
           /\ NotTheSecret(reply'.secret))
          => /\ reply'.code \in {401, 501}
             /\ reply'.stale = <<>> /\ reply'.segments = <<>> /\ reply'.sid = NoId
             /\ store' = store
     /\ \A p \in Procs :
          (pc[p] = "idle" /\ pc'[p] # "idle" /\ req'[p].kind \in InternalKinds)
            => ~NotTheSecret(req'[p].secret)]_vars

\* C27 witness: on a deployment without a secret, a request without any
\* header was refused while there was an active session to list or end.
C27_Witness ==
  /\ config.secret = NoSecret
  /\ reply.kind \in InternalKinds /\ reply.code = 501 /\ reply.secret = "none"
  /\ \E s \in SessionIds : sessions[s].exists /\ sessions[s].status = "active"

\* ------------------------------------------------------------------ completion specification
\* A participant's client marks the session completed, with the flag alone or
\* with the status and the end time as well.
CompletePatch(p) ==
  \E s \in SessionIds, b \in {CompleteBody, FinalizeBody} :
    /\ sessions[s].exists
    /\ ResolveBegin(p, PublicReq("patch", s, sessions[s].sessionToken, b))

\* One request at a time.
NextCompletionSerial ==
  \E p \in Procs :
    \/ Alone(p) /\ CompletePatch(p)
    \/ Alone(p) /\ PatchCommit(p)
    \/ Alone(p) /\ AppendBatch(p)
    \/ Alone(p) /\ AppendCommit(p)
    \/ Alone(p) /\ GetSession(p)
    \/ Alone(p) /\ GetReply(p)

SpecCompletionSerial == InitResolver /\ [][NextCompletionSerial]_vars

\* ------------------------------------------------------------------ end-of-session claims
\* C29: segments are committed to a session only while its stored status is
\* "active": no append commits after a patch has committed another status.
C29_NoAppendAfterStatusChange ==
  [][\A s \in SessionIds :
       (sessions[s].exists /\ Len(SegmentsOf(s)') > Len(SegmentsOf(s)))
         => sessions[s].status = "active"]_vars

\* C30: the transcript of a session whose stored completed flag is true never
\* grows.
C30_CompletedTranscriptIsFinal ==
  [][\A s \in SessionIds :
       (sessions[s].exists /\ sessions[s].completed)
         => Len(SegmentsOf(s)') <= Len(SegmentsOf(s))]_vars

====
